---- MODULE Spec2Model ----
(***************************************************************************)
(* Model of the zero-epwing-go extraction pipeline (package zig, zig.go).  *)
(* The source file holds two revisions of the package; the variable ver    *)
(* selects the revision a behaviour runs (1: lines 1-459, 2: lines         *)
(* 461-864).  A run is one call of Load by one goroutine.                  *)
(*                                                                         *)
(* Go strings and C buffers are sequences of byte values (0..255).  The    *)
(* disc is reached only through the EB access layer, which is modelled as  *)
(* an environment: every call may fail, and text at a position is a fixed  *)
(* sequence of units (a byte, or an inline narrow/wide font reference).    *)
(***************************************************************************)
EXTENDS Integers, Sequences, FiniteSets, TLC

\* ------------------------------------------------------------------ bounds

\* subbooks a disc reports at most (Spec)
MaxSubbooks == 2
\* hits the access layer delivers to one run at most (Spec)
MaxHits == 2
\* the same two bounds for the behaviours with two concurrent runs (SpecConc)
ConcSubbooks == 1
ConcHits == 1
\* the same two bounds for the behaviours over every disc code and option (SpecOpts)
OptSubbooks == 1
OptHits == 1

\* ------------------------------------------------------- program constants

\* make([]byte, 22)
InitBufferSize == 22
\* dataUsed+8 >= dataSize
SafetyMargin == 8

\* a nil error is the empty string; a nil *Book is <<>>, a *Book is <<book>>
NoErr == ""
NilBook == <<>>
Runs == {1, 2}

\* ------------------------------------------------------------ byte helpers

Min(a, b) == IF a < b THEN a ELSE b

Range(s) == {s[k] : k \in 1..Len(s)}

RECURSIVE Xor(_, _)
\* bitwise exclusive or of two naturals
Xor(a, b) ==
    IF a = 0 THEN b
    ELSE IF b = 0 THEN a
    ELSE 2 * Xor(a \div 2, b \div 2) + (((a % 2) + (b % 2)) % 2)

\* A uint32 is kept as <<high 16 bits, low 16 bits>>.
Xor32(u, v) == <<Xor(u[1], v[1]), Xor(u[2], v[2])>>
Not32(u) == <<65535 - u[1], 65535 - u[2]>>
Shr32(u, n) ==
    LET p == 2 ^ n
    IN  <<u[1] \div p, (u[2] \div p) + ((u[1] % p) * (65536 \div p))>>

\* crc32.IEEE = 0xedb88320
IEEEPoly == <<60856, 33568>>

RECURSIVE crcBit(_, _)
crcBit(crc, n) ==
    IF n = 0 THEN crc
    ELSE crcBit(IF crc[2] % 2 = 1 THEN Xor32(Shr32(crc, 1), IEEEPoly)
                                  ELSE Shr32(crc, 1), n - 1)

\* hash/crc32 simpleMakeTable(IEEE)
ieeeTable == [b \in 0..255 |-> crcBit(<<0, b>>, 8)]

RECURSIVE crcLoop(_, _)
\* the loop of simpleUpdate over the bytes p (crc[2] is never negative: the
\* test has crc evaluated at every round, not all at once at the end)
crcLoop(crc, p) ==
    IF p = <<>> \/ crc[2] < 0 THEN crc
    ELSE crcLoop(Xor32(ieeeTable[Xor(crc[2] % 256, Head(p))], Shr32(crc, 8)),
                 Tail(p))

RECURSIVE crcBlocks(_, _)
\* crcLoop over p, eight bytes at a time (keeps the evaluation shallow)
crcBlocks(crc, p) ==
    IF Len(p) <= 8 \/ crc[2] < 0 THEN crcLoop(crc, p)
    ELSE crcBlocks(crcLoop(crc, SubSeq(p, 1, 8)), SubSeq(p, 9, Len(p)))

\* hash/crc32 simpleUpdate: crc = ^crc; for each byte v: crc = tab[byte(crc)^v] ^ (crc >> 8); ^crc
crcUpdate(crc, p) == Not32(crcBlocks(Not32(crc), p))

\* hasher := crc32.NewIEEE(); Write(heading); Write(text); Sum32()
EntrySum(heading, text) == crcUpdate(crcUpdate(<<0, 0>>, heading), text)

RECURSIVE Digits(_)
\* fmt %d of a natural, as ASCII bytes
Digits(n) == IF n < 10 THEN <<48 + n>> ELSE Digits(n \div 10) \o <<48 + (n % 10)>>

\* fmt.Sprintf("{{n_%d}}", c) / fmt.Sprintf("{{w_%d}}", c)
Marker(font, c) ==
    <<123, 123, IF font = "n" THEN 110 ELSE 119, 95>> \o Digits(c) \o <<125, 125>>

\* utf8 encoding of a rune
Utf8(r) ==
    IF r < 128 THEN <<r>>
    ELSE IF r < 2048 THEN <<192 + (r \div 64), 128 + (r % 64)>>
    ELSE IF r < 65536
         THEN <<224 + (r \div 4096), 128 + ((r \div 64) % 64), 128 + (r % 64)>>
    ELSE <<240 + (r \div 262144), 128 + ((r \div 4096) % 64),
           128 + ((r \div 64) % 64), 128 + (r % 64)>>

RuneError == 65533

\* the least element of a non-empty set of integers
Least(S) == CHOOSE k \in S : \A j \in S : k <= j

\* index of the first element of s from index a on that satisfies nothing in
\* Plain, or Len(s) + 1
FirstNot(s, a, Plain(_)) ==
    LET S == {k \in a..Len(s) : ~Plain(s[k])}
    IN  IF S = {} THEN Len(s) + 1 ELSE Least(S)

IsAscii(b) == b < 128

RECURSIVE DecodeEUCJP(_)
\* japanese.EUCJP.NewDecoder().String: ASCII passes, 0x8e + kana byte is a
\* half-width katakana, a JIS X 0208 pair maps through the table (kept here
\* as the table index above the BMP, one rune per pair), any other byte is
\* U+FFFD.  A run of ASCII is copied in one step.
DecodeEUCJP(src) ==
    LET k == FirstNot(src, 1, IsAscii)
    IN  IF k > Len(src) THEN src
        ELSE LET c0 == src[k]
                 two == Len(src) > k
                 size == IF /\ two
                            /\ \/ c0 = 142 /\ src[k + 1] >= 161 /\ src[k + 1] <= 223
                               \/ /\ c0 >= 161 /\ c0 <= 254
                                  /\ src[k + 1] >= 161 /\ src[k + 1] <= 254
                         THEN 2 ELSE 1
                 rune == IF size = 1 THEN RuneError
                         ELSE IF c0 = 142 THEN 65377 + src[k + 1] - 161
                         ELSE 65536 + (94 * (c0 - 161)) + (src[k + 1] - 161)
             IN  SubSeq(src, 1, k - 1) \o Utf8(rune)
                 \o DecodeEUCJP(SubSeq(src, k + size, Len(src)))

IsNotNul(b) == b # 0

\* C.GoString: the bytes before the first NUL
GoString(data) == SubSeq(data, 1, FirstNot(data, 1, IsNotNul) - 1)

\* ------------------------------------------------------------ access layer

\* Text units: <<"c", b>> is the byte b, <<"n", c>> and <<"w", c>> are inline
\* references to the narrow / wide font character c.
Ch(bytes) == [k \in 1..Len(bytes) |-> <<"c", bytes[k]>>]

Rep(b, n) == [k \in 1..n |-> b]

\* Content of the disc at the positions the access layer hands out.
\*   1 "AB"   2 "C"   3 "A"   4 "BC"
\*   5  37 output bytes with a wide reference in the middle and a byte that
\*      is not EUC-JP at the end (needs two doublings of the scratch buffer)
\*   6  "E" wide 42, narrow 7, newline, 16 more bytes
Positions == 1..6

TextAt(p) ==
    CASE p = 1 -> Ch(<<65, 66>>)
      [] p = 2 -> Ch(<<67>>)
      [] p = 3 -> Ch(<<65>>)
      [] p = 4 -> Ch(<<66, 67>>)
      [] p = 5 -> Ch(Rep(120, 14)) \o <<<<"w", 42>>>> \o Ch(Rep(121, 14)) \o Ch(<<255>>)
      [] p = 6 -> Ch(<<69>>) \o <<<<"w", 42>>, <<"n", 7>>>> \o Ch(<<10>>) \o Ch(Rep(70, 16))

\* A hit is <<heading position, text position>>.
HitSet == {<<1, 2>>, <<3, 4>>, <<6, 5>>}

\* the hits of the discs of two concurrent runs
ConcHitSet == {<<3, 2>>}

\* position of the copyright notice of a subbook that has one
CopyrightPosition == 6

\* bytes eb_subbook_title leaves in data for the subbook with the given
\* code: "S" and the code's digit, NUL terminated
TitleData(code) == <<83, 48 + code, 0, 0>>

\* the subbook codes eb_subbook_list reports for a disc of n subbooks, in the
\* order it reports them: n, n - 1, ..., 1
SubbookCodes(n) == [k \in 1..n |-> n + 1 - k]

\* EB_CHARCODE_ISO8859_1, EB_CHARCODE_JISX0208, EB_CHARCODE_JISX0208_GB2312 and
\* one value outside the enumeration; EB_DISC_EB, EB_DISC_EPWING and one value
\* outside the enumeration
CharCodes == {"EB_CHARCODE_ISO8859_1", "EB_CHARCODE_JISX0208",
              "EB_CHARCODE_JISX0208_GB2312", "EB_CHARCODE_INVALID"}
DiscCodes == {"EB_DISC_EB", "EB_DISC_EPWING", "EB_DISC_INVALID"}

IsNotNewline(u) == u # <<"c", 10>>

\* The units a read of the given kind covers from offset off: a heading ends
\* before the first newline, a text runs to the end of the content.
UnitsOf(units, off, kind) ==
    SubSeq(units, off + 1,
           IF kind = "heading" THEN FirstNot(units, off + 1, IsNotNewline) - 1
                               ELSE Len(units))

\* What the interceptor writes for one reference (hookCallback, marker).
HookMarker(u) == Marker(u[1], u[2])

IsByte(u) == u[1] = "c"

RECURSIVE Decode(_, _, _)
\* eb_read_heading / eb_read_text from unit `from` on into a buffer with room
\* for `room` bytes: units are written whole while they fit; a font reference
\* calls the hook, whose marker is written through eb_write_text_string.
\* Result: [data |-> bytes written, fired |-> the references the hook was
\* called for, in order, n |-> units consumed].  Plain bytes up to the next
\* reference are copied in one step.
Decode(units, from, room) ==
    LET ref == FirstNot(units, from, IsByte)
        take == Min(ref - from, room)
        seg == [k \in 1..take |-> units[from + k - 1][2]]
    IN  IF take < ref - from \/ ref > Len(units)
        THEN [data |-> seg, fired |-> <<>>, n |-> take]
        ELSE LET m == HookMarker(units[ref])
             IN  IF Len(m) > room - take
                 THEN [data |-> seg, fired |-> <<units[ref]>>, n |-> take]
                 ELSE LET rest == Decode(units, ref + 1, room - take - Len(m))
                      IN  [data |-> seg \o m \o rest.data,
                           fired |-> <<units[ref]>> \o rest.fired,
                           n |-> take + 1 + rest.n]

\* ------------------------------------------------------------------- state

VARIABLES
    ver,              \* revision of zig.go that runs: 1 or 2
    activeQuery,      \* the global pointer: 0 is nil, r is run r's queryContext
    activeQueryLock,  \* the global mutex: TRUE while locked
    pc,               \* each run's position in Load
    bc,               \* each run's bookContext: the scratch buffer
    eb,               \* each run's access-layer state: handles, current subbook,
                      \* text cursor and the code (errEb) its last seek or decode
                      \* call returned
    query,            \* each run's queryContext of the subbook being loaded
    loc,              \* each run's local variables
    disc,             \* each run's input: what the access layer can report for its
                      \* disc, and whether the caller asked for stubbed gaiji
    out,              \* what Load returned: [book, err], once pc is "done"
    reads,            \* history: the <<position, kind, string>> loadContent returned
    refs,             \* history: the font references <<font, codepoint>> the access
                      \* layer met while decoding for the run's current subbook
    raster            \* a call of loadGaiji: its arguments, the bitmap, the result

vars == <<ver, activeQuery, activeQueryLock, pc, bc, eb, query, loc, disc, out, reads,
          refs, raster>>

Resources == {"library", "book", "hookset"}

\* &queryContext{blocksSeen: make(...), gaijiWide: make(...), gaijiNarrow: make(...)}
NewQuery == [blocksSeen |-> {}, gaijiWide |-> {}, gaijiNarrow |-> {}]

\* var subbook Subbook / BookSubbook
NewSubbook ==
    [Title |-> <<>>, Copyright |-> <<>>, Entries |-> <<>>,
     GaijiWide |-> <<>>, GaijiNarrow |-> <<>>]

NoBuffer == [size |-> 0, data |-> <<>>]

NoCursor == [pos |-> 0, off |-> 0]

LocInit ==
    [charCode |-> "", discCode |-> "",
     count |-> 0, i |-> 0, subbooks |-> <<>>, subbook |-> NewSubbook,
     err |-> NoErr, pass |-> 0, rejected |-> 0, entries |-> <<>>, hits |-> <<>>,
     heading |-> <<>>, position |-> 0, blockType |-> "", ret |-> "",
     dataUsed |-> 0, val |-> <<>>]

InitCommon ==
    /\ ver \in {1, 2}
    /\ activeQuery = 0
    /\ activeQueryLock = FALSE
    /\ bc = [r \in Runs |-> [buffer |-> NoBuffer]]
    /\ eb = [r \in Runs |-> [acq |-> [k \in Resources |-> 0],
                             rel |-> [k \in Resources |-> 0],
                             cur |-> NoCursor, errEb |-> "EB_SUCCESS",
                             subbook |-> 0]]
    /\ query = [r \in Runs |-> NewQuery]
    /\ out = [r \in Runs |-> [book |-> NilBook, err |-> NoErr]]
    /\ reads = [r \in Runs |-> {}]
    /\ refs = [r \in Runs |-> {}]
    /\ loc = [r \in Runs |-> LocInit]

\* ------------------------------------------------------------------ loadGaiji

\* the glyph sizes of the access layer (EB_FONT_16, _24, _30, _48)
Sizes == {16, 24, 30, 48}

\* bitmap := make([]C.char, size*size/8)
BitmapLen(size) == (size * size) \div 8

\* the packed bitmap the access layer fills in for a glyph whose only set bit
\* is bit n, counted from the most significant bit of byte 0
BitmapOf(size, n) ==
    [k \in 0..(BitmapLen(size) - 1) |-> IF k = n \div 8 THEN 2 ^ (7 - (n % 8)) ELSE 0]

\* byteOffset = y*size/8 + x/8
byteOffset(x, y, size) == ((y * size) \div 8) + (x \div 8)

\* bitOffset = 7 - x%8
bitOffset(x) == 7 - (x % 8)

\* b&(1<<bitOffset) != 0
BitSet(b, k) == (b \div (2 ^ k)) % 2 = 1

\* the colours of an image.RGBA pixel: the zero value that image.NewRGBA
\* leaves in every pixel, and color.RGBA{0x00, 0x00, 0x00, 0xff}
ZeroRGBA == <<0, 0, 0, 0>>
Black == <<0, 0, 0, 255>>

\* image.NewRGBA(image.Rect(0, 0, size, size)): no pixel has been Set
NewRGBA(size) == [size |-> size, set |-> {}]

\* glyph.At(x, y)
ColorAt(glyph, x, y) == IF <<x, y>> \in glyph.set THEN Black ELSE ZeroRGBA

\* the two loops of loadGaiji: glyph.Set(x, y, black) for each pixel whose
\* bit is set
Rasterize(bitmap, size) ==
    [NewRGBA(size) EXCEPT !.set =
        {p \in (0..(size - 1)) \X (0..(size - 1)) :
            BitSet(bitmap[byteOffset(p[1], p[2], size)], bitOffset(p[1]))}]

\* no call of loadGaiji is under way
NoRaster == [pc |-> "off", size |-> 0, font |-> "", bit |-> 0,
             bitmap |-> <<>>, glyph |-> NewRGBA(0), err |-> NoErr]

\* one call of Load
Init ==
    /\ InitCommon
    /\ raster = NoRaster
    /\ pc = [r \in Runs |-> IF r = 1 THEN "start" ELSE "off"]
    /\ disc = [r \in Runs |-> [charCodes |-> {"EB_CHARCODE_JISX0208"},
                               discCodes |-> {"EB_DISC_EPWING"},
                               maxSubs |-> MaxSubbooks, hitSet |-> HitSet,
                               fuel |-> MaxHits, stub |-> FALSE]]

\* two goroutines call Load at once
InitConc ==
    /\ InitCommon
    /\ raster = NoRaster
    /\ pc = [r \in Runs |-> "start"]
    /\ disc = [r \in Runs |-> [charCodes |-> {"EB_CHARCODE_JISX0208"},
                               discCodes |-> {"EB_DISC_EPWING"},
                               maxSubs |-> ConcSubbooks, hitSet |-> ConcHitSet,
                               fuel |-> ConcHits, stub |-> FALSE]]

\* ----------------------------------------------------------------- helpers

Perms(S) == {p \in [1..Cardinality(S) -> S] : Range(p) = S}

\* bookContext.shutdown: finalize and free hookset, book, library
Shutdown(e) == [e EXCEPT !.rel = [k \in Resources |-> @[k] + 1], !.subbook = 0]

\* eb_initialize_library, calloc + eb_initialize_book, calloc + eb_initialize_hookset
Acquire(e) == [e EXCEPT !.acq = [k \in Resources |-> @[k] + 1]]

\* Load returns (b, e); the deferred bc.shutdown() runs and the locals of the
\* call are gone
Return(r, b, e) ==
    /\ pc' = [pc EXCEPT ![r] = "done"]
    /\ out' = [out EXCEPT ![r] = [book |-> b, err |-> e]]
    /\ eb' = [eb EXCEPT ![r] = Shutdown(@)]
    /\ loc' = [loc EXCEPT ![r] = LocInit]
    /\ bc' = [bc EXCEPT ![r].buffer = NoBuffer]
    /\ reads' = [reads EXCEPT ![r] = {}]
    /\ refs' = [refs EXCEPT ![r] = {}]

\* loadSubbook returns (nil, err): an access-layer call inside it failed
SubbookFail(r, msg) ==
    /\ pc' = [pc EXCEPT ![r] = "ls_ret"]
    /\ loc' = [loc EXCEPT ![r].err = msg, ![r].subbook = NewSubbook, ![r].rejected = 0,
                          ![r].entries = <<>>, ![r].hits = <<>>,
                          ![r].heading = <<>>, ![r].val = <<>>,
                          ![r].dataUsed = 0, ![r].ret = "",
                          ![r].position = 0, ![r].blockType = ""]

\* a call bc.loadContent(position, blockType) begins; ret names the caller
StartContent(l, position, blockType, ret) ==
    [l EXCEPT !.position = position, !.blockType = blockType, !.ret = ret,
              !.dataUsed = 0, !.val = <<>>]

\* the pass after pass k of loadSubbook, or clearActiveQuery after the third
AfterPass(l) == IF l.pass < 3 THEN "ls_pass" ELSE "ls_clear"

\* a nil dereference in the hook ends the process: no run moves after it
NoPanic == \A r \in Runs : pc[r] # "panic"

\* run r is at label l of Load
At(r, l) == NoPanic /\ pc[r] = l

\* ------------------------------------------------------- Load, loadInternal

CharCodeName_nodefault(c) ==
    CASE c = "EB_CHARCODE_ISO8859_1" -> "iso8859-1"
      [] c = "EB_CHARCODE_JISX0208" -> "jisx0208"
      [] c = "EB_CHARCODE_JISX0208_GB2312" -> "jisx0208/gb2312"
      [] OTHER -> ""

\* loadCharCode: the switch over charCode
CharCodeName(c) ==
    CASE c = "EB_CHARCODE_ISO8859_1" -> "iso8859-1"
      [] c = "EB_CHARCODE_JISX0208" -> "jisx0208"
      [] c = "EB_CHARCODE_JISX0208_GB2312" -> "jisx0208/gb2312"
      [] OTHER -> "invalid"

\* loadDiscCode: the switch over discCode
DiscCodeName(c) ==
    CASE c = "EB_DISC_EB" -> "eb"
      [] c = "EB_DISC_EPWING" -> "epwing"
      [] OTHER -> "invalid"

\* &book of loadInternal once loadSubbooks has returned the subbooks
BookOf(l) == [DiscCode |-> l.discCode, CharCode |-> l.charCode, Subbooks |-> l.subbooks]

BookOnError_partial(l) == <<BookOf(l)>>

\* loadSubbooks: return nil, err; loadInternal: return nil, err
BookOnError(l) == NilBook

\* Load: bc.initialize(); on error return nil, err (before the defer)
Initialize(r) ==
    /\ At(r, "start")
    /\ \E outcome \in {"library", "hooks", "ok"} :
        CASE outcome = "library" ->
                /\ pc' = [pc EXCEPT ![r] = "done"]
                /\ out' = [out EXCEPT ![r] = [book |-> NilBook, err |-> "eb_initialize_library"]]
                /\ UNCHANGED <<eb, bc>>
          [] outcome = "hooks" ->
                /\ pc' = [pc EXCEPT ![r] = "done"]
                /\ out' = [out EXCEPT ![r] = [book |-> NilBook, err |-> "eb_set_hook"]]
                /\ eb' = [eb EXCEPT ![r] = Acquire(@)]
                /\ UNCHANGED bc
          [] outcome = "ok" ->
                /\ pc' = [pc EXCEPT ![r] = "bind"]
                /\ eb' = [eb EXCEPT ![r] = Acquire(@)]
                /\ bc' = [bc EXCEPT ![r].buffer = [size |-> InitBufferSize, data |-> <<>>]]
                /\ UNCHANGED out
    /\ UNCHANGED <<ver, raster, disc, activeQuery, activeQueryLock, query, loc, reads, refs>>

\* loadInternal: eb_bind
Bind(r) ==
    /\ At(r, "bind")
    /\ \/ Return(r, NilBook, "eb_bind")
       \/ /\ pc' = [pc EXCEPT ![r] = "charcode"]
          /\ UNCHANGED <<eb, out, loc, bc, reads, refs>>
    /\ UNCHANGED <<ver, raster, disc, activeQuery, activeQueryLock, query>>

\* loadInternal: book.CharCode, err = bc.loadCharCode()
LoadCharCode(r) ==
    /\ At(r, "charcode")
    /\ \/ Return(r, NilBook, "eb_character_code")
       \/ \E c \in disc[r].charCodes :
            /\ loc' = [loc EXCEPT ![r].charCode = CharCodeName(c)]
            /\ pc' = [pc EXCEPT ![r] = "disccode"]
            /\ UNCHANGED <<eb, out, bc, reads, refs>>
    /\ UNCHANGED <<ver, raster, disc, activeQuery, activeQueryLock, query>>

\* loadInternal: book.DiscCode, err = bc.loadDiscCode()
LoadDiscCode(r) ==
    /\ At(r, "disccode")
    /\ \/ Return(r, NilBook, "eb_disc_type")
       \/ \E c \in disc[r].discCodes :
            /\ loc' = [loc EXCEPT ![r].discCode = DiscCodeName(c)]
            /\ pc' = [pc EXCEPT ![r] = "subbooks"]
            /\ UNCHANGED <<eb, out, bc, reads, refs>>
    /\ UNCHANGED <<ver, raster, disc, activeQuery, activeQueryLock, query>>

\* loadSubbooks: eb_subbook_list, and the loop's first test
SubbookList(r) ==
    /\ At(r, "subbooks")
    /\ \/ Return(r, NilBook, "eb_subbook_list")
       \/ \E n \in 0..disc[r].maxSubs :
            IF n = 0
            THEN Return(r, <<BookOf(loc[r])>>, NoErr)
            ELSE /\ loc' = [loc EXCEPT ![r].count = n, ![r].i = 0]
                 /\ pc' = [pc EXCEPT ![r] = "ls_start"]
                 /\ UNCHANGED <<eb, out, bc, reads, refs>>
    /\ UNCHANGED <<ver, raster, disc, activeQuery, activeQueryLock, query>>

AppendSubbook_front(subbooks, subbook) == <<subbook>> \o subbooks

\* subbooks = append(subbooks, *subbook)
AppendSubbook(subbooks, subbook) == Append(subbooks, subbook)

\* loadSubbooks: the result of bc.loadSubbook(subbookCodes[i]) comes back
SubbookReturn(r) ==
    /\ At(r, "ls_ret")
    /\ IF loc[r].err # NoErr
       THEN /\ Return(r, BookOnError(loc[r]), loc[r].err)
            /\ UNCHANGED query
       ELSE LET l == [loc[r] EXCEPT !.subbooks = AppendSubbook(@, loc[r].subbook),
                                    !.subbook = NewSubbook, !.i = @ + 1, !.pass = 0,
                                    !.rejected = 0]
            IN  /\ UNCHANGED query
                /\ IF l.i < l.count
                   THEN /\ loc' = [loc EXCEPT ![r] = l]
                        /\ pc' = [pc EXCEPT ![r] = "ls_start"]
                        /\ UNCHANGED <<eb, out, bc, reads, refs>>
                   ELSE Return(r, <<BookOf(l)>>, NoErr)
    /\ UNCHANGED <<ver, raster, disc, activeQuery, activeQueryLock>>

\* --------------------------------------------------------------- loadSubbook

LockFree_noblock == TRUE

\* activeQueryLock.Lock() returns only when the mutex is free
LockFree == activeQueryLock = FALSE

FreshQuery_reuse(q) == q

\* query := &queryContext{...}: three new, empty maps, whatever the context
\* of the subbook before held
FreshQuery(q) == NewQuery

\* loadSubbook: eb_set_subbook
SetSubbook(r) ==
    /\ At(r, "ls_start")
    /\ \/ SubbookFail(r, "eb_set_subbook") /\ UNCHANGED eb
       \/ /\ pc' = [pc EXCEPT ![r] = IF ver = 1 THEN "ls_set" ELSE "ls_title"]
          /\ loc' = [loc EXCEPT ![r].subbook = NewSubbook, ![r].err = NoErr,
                                ![r].rejected = 0]
          /\ eb' = [eb EXCEPT ![r].subbook = SubbookCodes(loc[r].count)[loc[r].i + 1]]
    /\ refs' = [refs EXCEPT ![r] = {}]
    /\ UNCHANGED <<ver, raster, disc, activeQuery, activeQueryLock, bc, query, out, reads>>

\* loadSubbook: query := &queryContext{...}; setActiveQuery(query)
SetActiveQuery(r) ==
    /\ At(r, "ls_set")
    /\ LockFree
    /\ activeQueryLock' = TRUE
    /\ activeQuery' = r
    /\ query' = [query EXCEPT ![r] = FreshQuery(@)]
    /\ pc' = [pc EXCEPT ![r] = IF ver = 1 THEN "ls_title" ELSE "ls_pass"]
    /\ loc' = [loc EXCEPT ![r].pass = IF ver = 1 THEN 0 ELSE 1]
    /\ UNCHANGED <<ver, raster, disc, bc, eb, out, reads, refs>>

\* loadSubbook: subbook.Title, err = bc.loadTitle()
LoadTitle(r) ==
    /\ At(r, "ls_title")
    /\ \/ SubbookFail(r, "eb_subbook_title")
       \/ /\ pc' = [pc EXCEPT ![r] = "ls_copyright"]
          /\ loc' = [loc EXCEPT ![r].subbook.Title = DecodeEUCJP(GoString(TitleData(eb[r].subbook)))]
    /\ UNCHANGED <<ver, raster, disc, activeQuery, activeQueryLock, bc, eb, query, out, reads, refs>>

\* where loadSubbook goes once the copyright is read
AfterCopyright == IF ver = 1 THEN "ls_pass" ELSE "ls_set"

\* loadSubbook: subbook.Copyright, err = bc.loadCopyright(), up to its loadContent
LoadCopyright(r) ==
    /\ At(r, "ls_copyright")
    /\ \/ \* eb_have_copyright == 0
          /\ pc' = [pc EXCEPT ![r] = AfterCopyright]
          /\ loc' = [loc EXCEPT ![r].subbook.Copyright = <<>>, ![r].pass = 1]
       \/ SubbookFail(r, "eb_copyright")
       \/ /\ pc' = [pc EXCEPT ![r] = "lc_seek"]
          /\ loc' = [loc EXCEPT ![r] = StartContent(@, CopyrightPosition, "text", "copyright")]
    /\ UNCHANGED <<ver, raster, disc, activeQuery, activeQueryLock, bc, eb, query, out, reads, refs>>

\* loadCopyright returns what loadContent returned
CopyrightRet(r) ==
    /\ At(r, "lc_ret")
    /\ loc[r].ret = "copyright"
    /\ pc' = [pc EXCEPT ![r] = AfterCopyright]
    /\ loc' = [loc EXCEPT ![r] = [StartContent(@, 0, "", "") EXCEPT
                                     !.subbook.Copyright = loc[r].val, !.pass = 1]]
    /\ UNCHANGED <<ver, raster, disc, activeQuery, activeQueryLock, bc, eb, query, out, reads, refs>>

SearchRejected_fail(r) == SubbookFail(r, "eb_search_all")

\* errEb != EB_SUCCESS: the if body is not run, the pass is skipped; rejected
\* counts the requests the access layer has rejected for this subbook
SearchRejected(r) ==
    /\ pc' = [pc EXCEPT ![r] = AfterPass(loc[r])]
    /\ loc' = [loc EXCEPT ![r].pass = IF @ < 3 THEN @ + 1 ELSE @,
                          ![r].rejected = @ + 1]

\* loadSubbook: eb_search_all_alphabet / _kana / _asis for pass 1 / 2 / 3
SearchAll(r) ==
    /\ At(r, "ls_pass")
    /\ \/ SearchRejected(r)
       \/ /\ pc' = [pc EXCEPT ![r] = "le_hitlist"]
          /\ loc' = [loc EXCEPT ![r].entries = <<>>]
    /\ UNCHANGED <<ver, raster, disc, activeQuery, activeQueryLock, bc, eb, query, out, reads, refs>>

\* loadSubbook: clearActiveQuery(); revision 2 then copies the codepoint sets
ClearActiveQuery(r) ==
    /\ At(r, "ls_clear")
    /\ activeQuery' = 0
    /\ activeQueryLock' = FALSE
    /\ IF ver = 1
       THEN /\ pc' = [pc EXCEPT ![r] = "ls_font"]
            /\ UNCHANGED loc
       ELSE /\ pc' = [pc EXCEPT ![r] = "ls_ret"]
            /\ \E w \in Perms(query[r].gaijiWide), n \in Perms(query[r].gaijiNarrow) :
                 loc' = [loc EXCEPT ![r].subbook.GaijiWide = w,
                                    ![r].subbook.GaijiNarrow = n]
    /\ UNCHANGED <<ver, raster, disc, bc, eb, query, out, reads, refs>>

\* loadSubbook, revision 1: eb_set_font(EB_FONT_48)
SetFont(r) ==
    /\ At(r, "ls_font")
    /\ \/ SubbookFail(r, "eb_set_font")
       \/ /\ pc' = [pc EXCEPT ![r] = "ls_glyphs"]
          /\ UNCHANGED loc
    /\ UNCHANGED <<ver, raster, disc, activeQuery, activeQueryLock, bc, eb, query, out, reads, refs>>

\* loadSubbook, revision 1: for each wide codepoint loadGaiji and os.Create
DumpGlyphs(r) ==
    /\ At(r, "ls_glyphs")
    /\ \/ /\ pc' = [pc EXCEPT ![r] = "ls_ret"]
          /\ UNCHANGED loc
       \/ /\ query[r].gaijiWide # {}
          /\ \E msg \in {"eb_wide_font_character_bitmap", "os.Create"} :
               SubbookFail(r, msg)
    /\ UNCHANGED <<ver, raster, disc, activeQuery, activeQueryLock, bc, eb, query, out, reads, refs>>

\* --------------------------------------------------------------- loadEntries

Seen_never(q, sum) == FALSE

\* seen, _ := query.blocksSeen[sum]
Seen(q, sum) == sum \in q.blocksSeen

\* loadEntries: eb_hit_list; an empty batch ends the pass (return entries, nil
\* and the append in loadSubbook), another one starts with its first heading
HitList(r) ==
    /\ At(r, "le_hitlist")
    /\ \/ /\ SubbookFail(r, "eb_hit_list")
          /\ UNCHANGED disc
       \/ \E n \in 0..disc[r].fuel :
            \E batch \in [1..n -> disc[r].hitSet] :
              IF n = 0
              THEN /\ pc' = [pc EXCEPT ![r] = AfterPass(loc[r])]
                   /\ loc' = [loc EXCEPT ![r].subbook.Entries = @ \o loc[r].entries,
                                         ![r].entries = <<>>,
                                         ![r].pass = IF @ < 3 THEN @ + 1 ELSE @]
                   /\ UNCHANGED disc
              ELSE /\ pc' = [pc EXCEPT ![r] = "lc_seek"]
                   /\ loc' = [loc EXCEPT ![r] =
                                [StartContent(@, batch[1][1], "heading", "heading")
                                    EXCEPT !.hits = batch]]
                   /\ disc' = [disc EXCEPT ![r].fuel = @ - n]
    /\ UNCHANGED <<ver, raster, activeQuery, activeQueryLock, bc, eb, query, out, reads, refs>>

\* loadEntries: entry.Heading is read, entry.Text is next
HeadingRet(r) ==
    /\ At(r, "lc_ret")
    /\ loc[r].ret = "heading"
    /\ pc' = [pc EXCEPT ![r] = "lc_seek"]
    /\ loc' = [loc EXCEPT ![r] =
                 [StartContent(@, loc[r].hits[1][2], "text", "text")
                     EXCEPT !.heading = loc[r].val]]
    /\ UNCHANGED <<ver, raster, disc, activeQuery, activeQueryLock, bc, eb, query, out, reads, refs>>

\* loadEntries: entry.Text is read; hash, deduplicate, go to the next hit
TextRet(r) ==
    /\ At(r, "lc_ret")
    /\ loc[r].ret = "text"
    /\ \E sum \in {EntrySum(loc[r].heading, loc[r].val)} :
       LET entry == <<loc[r].heading, loc[r].val>>
           fresh == ~Seen(query[r], sum)
           rest == Tail(loc[r].hits)
           l0 == [loc[r] EXCEPT !.entries = IF fresh THEN Append(@, entry) ELSE @,
                                !.hits = rest, !.heading = <<>>]
       IN  /\ query' = [query EXCEPT ![r].blocksSeen =
                            IF fresh THEN @ \cup {sum} ELSE @]
           /\ IF rest = <<>>
              THEN /\ pc' = [pc EXCEPT ![r] = "le_hitlist"]
                   /\ loc' = [loc EXCEPT ![r] = StartContent(l0, 0, "", "")]
              ELSE /\ pc' = [pc EXCEPT ![r] = "lc_seek"]
                   /\ loc' = [loc EXCEPT ![r] =
                                StartContent(l0, rest[1][1], "heading", "heading")]
    /\ UNCHANGED <<ver, raster, disc, activeQuery, activeQueryLock, bc, eb, out, reads, refs>>

\* --------------------------------------------------- loadContent, hookCallback

hookCallback_toggle(q, u) ==
    IF u[1] = "n"
    THEN [q EXCEPT !.gaijiNarrow = IF u[2] \in @ THEN @ \ {u[2]} ELSE @ \cup {u[2]}]
    ELSE [q EXCEPT !.gaijiWide = IF u[2] \in @ THEN @ \ {u[2]} ELSE @ \cup {u[2]}]

\* hookCallback: activeQuery.gaijiNarrow[c] = true / activeQuery.gaijiWide[c] = true
hookCallback(q, u) ==
    IF u[1] = "n" THEN [q EXCEPT !.gaijiNarrow = @ \cup {u[2]}]
                  ELSE [q EXCEPT !.gaijiWide = @ \cup {u[2]}]

RECURSIVE HookAll(_, _)
\* the hook calls of one decode, in order
HookAll(q, fired) ==
    IF fired = <<>> THEN q ELSE HookAll(hookCallback(q, Head(fired)), Tail(fired))

NeedsGrow_nomargin(dataUsed, dataSize) == dataUsed >= dataSize

\* dataUsed+8 >= (C.ssize_t)(dataSize)
NeedsGrow(dataUsed, dataSize) == dataUsed + SafetyMargin >= dataSize

Grown_same(dataSize) == dataSize

\* bc.buffer = make([]byte, dataSize*2)
Grown(dataSize) == dataSize * 2

SeekCursor_keep(cur, position) ==
    IF cur.pos = position THEN cur ELSE [pos |-> position, off |-> 0]

\* eb_seek_text(bc.book, &position)
SeekCursor(cur, position) == [pos |-> position, off |-> 0]

LcFail_retry(r, msg) ==
    /\ pc' = [pc EXCEPT ![r] = "lc_seek"]
    /\ bc' = [bc EXCEPT ![r].buffer = [size |-> 2 * @.size, data |-> <<>>]]
    /\ UNCHANGED loc

\* loadContent: return "", fmt.Errorf(...), which every caller hands up
LcFail(r, msg) ==
    /\ SubbookFail(r, msg)
    /\ UNCHANGED bc

\* loadContent: eb_seek_text
LcSeek(r) ==
    /\ At(r, "lc_seek")
    /\ \/ /\ LcFail(r, "eb_seek_text")
          /\ eb' = [eb EXCEPT ![r].errEb = "EB_ERR"]
       \/ /\ eb' = [eb EXCEPT ![r].cur = SeekCursor(@, loc[r].position),
                              ![r].errEb = "EB_SUCCESS"]
          /\ pc' = [pc EXCEPT ![r] = "lc_read"]
          /\ UNCHANGED <<bc, loc>>
    /\ UNCHANGED <<ver, raster, disc, activeQuery, activeQueryLock, query, out, reads, refs>>

\* loadContent: eb_read_heading / eb_read_text (the hook runs inside it), then
\* the margin test: grow the buffer and go round again, or return the string
LcRead(r) ==
    /\ At(r, "lc_read")
    /\ \E units \in {UnitsOf(TextAt(eb[r].cur.pos), eb[r].cur.off, loc[r].blockType)},
          size \in {bc[r].buffer.size} :
       \E rd \in {Decode(units, 1, size - 1)} :
       \E used \in {Len(rd.data)}, data \in {rd.data \o <<0>>} :
           \/ /\ LcFail(r, IF loc[r].blockType = "heading"
                           THEN "eb_read_heading" ELSE "eb_read_text")
              /\ eb' = [eb EXCEPT ![r].errEb = "EB_ERR"]
              /\ UNCHANGED <<query, out, reads, refs>>
           \/ \* the hook dereferences a nil activeQuery: the run panics and
              \* the deferred bc.shutdown() runs while it unwinds
              /\ rd.fired # <<>>
              /\ activeQuery = 0
              /\ pc' = [pc EXCEPT ![r] = "panic"]
              /\ eb' = [eb EXCEPT ![r] = Shutdown(@)]
              /\ UNCHANGED <<bc, loc, query, out, reads, refs>>
           \/ /\ rd.fired # <<>> => activeQuery # 0
              /\ query' = IF rd.fired = <<>> THEN query
                          ELSE [query EXCEPT ![activeQuery] = HookAll(@, rd.fired)]
              /\ eb' = [eb EXCEPT ![r].cur.off = @ + rd.n, ![r].errEb = "EB_SUCCESS"]
              /\ IF NeedsGrow(used, size)
                 THEN /\ bc' = [bc EXCEPT ![r].buffer = [size |-> Grown(size), data |-> <<>>]]
                      /\ loc' = [loc EXCEPT ![r].dataUsed = used]
                      /\ pc' = [pc EXCEPT ![r] = "lc_seek"]
                      /\ UNCHANGED reads
                 ELSE \E str \in {DecodeEUCJP(GoString(data))} :
                      /\ bc' = [bc EXCEPT ![r].buffer.data = data]
                      /\ loc' = [loc EXCEPT ![r].dataUsed = used, ![r].val = str]
                      /\ pc' = [pc EXCEPT ![r] = "lc_ret"]
                      /\ reads' = [reads EXCEPT ![r] = @ \cup
                                     {<<loc[r].position, loc[r].blockType, str>>}]
              /\ refs' = [refs EXCEPT ![r] = @ \cup Range(rd.fired)]
              /\ UNCHANGED out
    /\ UNCHANGED <<ver, raster, disc, activeQuery, activeQueryLock>>

\* ------------------------------------------------------- loadGaiji, stepwise

\* loadGaiji: eb_wide_font_character_bitmap / eb_narrow_font_character_bitmap
GaijiBitmap ==
    /\ raster.pc = "call"
    /\ \/ raster' = [raster EXCEPT !.pc = "done",
                                    !.err = "eb_wide_font_character_bitmap"]
       \/ raster' = [raster EXCEPT !.pc = "loop",
                                    !.bitmap = BitmapOf(raster.size, raster.bit)]
    /\ UNCHANGED <<ver, activeQuery, activeQueryLock, pc, bc, eb, query, loc, disc, out,
                   reads, refs>>

\* loadGaiji: the image is built and returned
GaijiRaster ==
    /\ raster.pc = "loop"
    /\ raster' = [raster EXCEPT !.pc = "done",
                                !.glyph = Rasterize(raster.bitmap, raster.size)]
    /\ UNCHANGED <<ver, activeQuery, activeQueryLock, pc, bc, eb, query, loc, disc, out,
                   reads, refs>>

\* --------------------------------------------------------------- the system

Next ==
    \/ \E r \in Runs : Initialize(r)
    \/ \E r \in Runs : Bind(r)
    \/ \E r \in Runs : LoadCharCode(r)
    \/ \E r \in Runs : LoadDiscCode(r)
    \/ \E r \in Runs : SubbookList(r)
    \/ \E r \in Runs : SetSubbook(r)
    \/ \E r \in Runs : SetActiveQuery(r)
    \/ \E r \in Runs : LoadTitle(r)
    \/ \E r \in Runs : LoadCopyright(r)
    \/ \E r \in Runs : CopyrightRet(r)
    \/ \E r \in Runs : SearchAll(r)
    \/ \E r \in Runs : HitList(r)
    \/ \E r \in Runs : HeadingRet(r)
    \/ \E r \in Runs : TextRet(r)
    \/ \E r \in Runs : LcSeek(r)
    \/ \E r \in Runs : LcRead(r)
    \/ \E r \in Runs : ClearActiveQuery(r)
    \/ \E r \in Runs : SetFont(r)
    \/ \E r \in Runs : DumpGlyphs(r)
    \/ \E r \in Runs : SubbookReturn(r)

Spec == Init /\ [][Next]_vars

SpecConc == InitConc /\ [][Next]_vars

\* one call of Load whose loadContent keeps running: eb_seek_text and the
\* read are synchronous calls of the goroutine, so while loadContent has a
\* step to take, the step is taken
SpecLive == Init /\ [][Next]_vars /\ WF_vars(\E r \in Runs : LcSeek(r) \/ LcRead(r))

\* one call of Load, for a disc of any character code and disc type, with
\* stub mode asked for or not
InitOpts ==
    /\ InitCommon
    /\ raster = NoRaster
    /\ pc = [r \in Runs |-> IF r = 1 THEN "start" ELSE "off"]
    /\ \E c \in CharCodes, d \in DiscCodes, stub \in BOOLEAN :
         disc = [r \in Runs |-> [charCodes |-> {c}, discCodes |-> {d},
                                 maxSubs |-> OptSubbooks, hitSet |-> HitSet,
                                 fuel |-> OptHits, stub |-> stub]]

SpecOpts == InitOpts /\ [][Next]_vars

\* a call of loadGaiji for a glyph with one set bit, outside any Load
InitGaiji ==
    /\ InitCommon
    /\ ver = 1
    /\ pc = [r \in Runs |-> "off"]
    /\ disc = [r \in Runs |-> [charCodes |-> {}, discCodes |-> {}, maxSubs |-> 0,
                               hitSet |-> {}, fuel |-> 0, stub |-> FALSE]]
    /\ \E size \in Sizes, font \in {"wide", "narrow"} :
         \E n \in 0..(8 * BitmapLen(size) - 1) :
            raster = [NoRaster EXCEPT !.pc = "call", !.size = size, !.font = font,
                                      !.bit = n]

NextGaiji == GaijiBitmap \/ GaijiRaster

SpecGaiji == InitGaiji /\ [][NextGaiji]_vars

\* ------------------------------------------------------------------ claims

\* a sequence without two equal elements
NoRepeat(s) == \A a, b \in 1..Len(s) : s[a] = s[b] => a = b

\* C1: the Entries of a subbook -- those gathered so far, those of the
\* subbooks already returned by loadSubbook and those of the Book that Load
\* returns -- never hold two entries with equal (heading, text) pairs.
C1_NoDuplicateEntries ==
    \A r \in Runs :
        /\ NoRepeat(loc[r].subbook.Entries \o loc[r].entries)
        /\ \A k \in 1..Len(loc[r].subbooks) : NoRepeat(loc[r].subbooks[k].Entries)
        /\ \A b \in Range(out[r].book) :
             \A k \in 1..Len(b.Subbooks) : NoRepeat(b.Subbooks[k].Entries)

\* C1 witness: the first subbook is returned with one entry after the access
\* layer delivered the same hit twice (two hits, two distinct reads).
C1_Witness ==
    \E r \in Runs :
        /\ pc[r] = "ls_ret" /\ loc[r].err = NoErr /\ loc[r].i = 0
        /\ disc[r].fuel = MaxHits - 2
        /\ loc[r].subbook.Copyright = <<>>
        /\ Cardinality(reads[r]) = 2
        /\ Len(loc[r].subbook.Entries) = 1

\* C2: the walk is complete: once loadEntries has hashed a decoded entry
\* (heading, text), that entry is among the entries gathered for the subbook.
C2_Complete ==
    [][\A r \in Runs :
          (pc[r] = "lc_ret" /\ loc[r].ret = "text" /\ loc'[r] # loc[r])
          => <<loc[r].heading, loc[r].val>>
                \in Range(loc'[r].subbook.Entries \o loc'[r].entries)]_vars

\* C3: one Extraction Context at a time: an installed context implies a held
\* lock; a step never replaces an installed activeQuery by another one; it is
\* set to nil only by the clearActiveQuery of the run it belongs to; and a run
\* at setActiveQuery does not move while a context is installed.
C3_OneActiveContext ==
    [][/\ activeQuery # 0 => activeQueryLock
       /\ activeQuery # 0 => activeQuery' \in {activeQuery, 0}
       /\ (activeQuery # 0 /\ activeQuery' = 0)
            => (pc[activeQuery] = "ls_clear" /\ pc'[activeQuery] # "ls_clear")
       /\ \A r \in Runs :
            (pc[r] = "ls_set" /\ activeQuery # 0) => pc'[r] = "ls_set"]_vars

\* C3 witness: a run waits at setActiveQuery while the other run's context is
\* installed.
C3_Witness ==
    \E r, t \in Runs : r # t /\ pc[r] = "ls_set" /\ activeQuery = t

\* C4: when loadSubbook has returned (with a subbook or with an error),
\* activeQuery is nil and the lock is free.
C4_ClearedOnReturn ==
    \A r \in Runs : pc[r] = "ls_ret" => (activeQuery = 0 /\ ~activeQueryLock)

\* C5: a seek or decode of loadContent runs only while the context of the
\* run that issues it is installed.
C5_DecodeInsideContext ==
    \A r \in Runs : pc[r] \in {"lc_seek", "lc_read"} => activeQuery = r

\* C6: when Load has returned, each access-layer resource was released as
\* often as it was acquired.
C6_ReleasedOnExit ==
    \A r \in Runs :
        pc[r] = "done" => \A k \in Resources : eb[r].rel[k] = eb[r].acq[k]

\* C7: a read that leaves loadContent with a string left the margin
\* (dataUsed + 8 < len(buffer)), kept the buffer, and the string is that
\* read's data; a read that came within the margin doubles the buffer and
\* goes back to the seek for the same position and kind.
C7_MarginOrRetry ==
    [][\A r \in Runs :
          /\ (pc[r] = "lc_read" /\ pc'[r] = "lc_ret")
               => /\ loc'[r].dataUsed + SafetyMargin < bc[r].buffer.size
                  /\ bc'[r].buffer.size = bc[r].buffer.size
                  /\ Len(GoString(bc'[r].buffer.data)) = loc'[r].dataUsed
                  /\ loc'[r].val = DecodeEUCJP(GoString(bc'[r].buffer.data))
          /\ (pc[r] = "lc_read" /\ pc'[r] = "lc_seek")
               => /\ loc'[r].dataUsed + SafetyMargin >= bc[r].buffer.size
                  /\ bc'[r].buffer.size = 2 * bc[r].buffer.size
                  /\ loc'[r].position = loc[r].position
                  /\ loc'[r].blockType = loc[r].blockType
          /\ (pc[r] = "lc_read" /\ eb'[r].cur # eb[r].cur)
               => pc'[r] = IF loc'[r].dataUsed + SafetyMargin >= bc[r].buffer.size
                           THEN "lc_seek" ELSE "lc_ret"]_vars

\* C7 witness: a string is returned from a buffer that was doubled twice.
C7_Witness ==
    \E r \in Runs :
        pc[r] = "lc_ret" /\ bc[r].buffer.size = 4 * InitBufferSize /\ loc[r].position = 5

C9_ErrorNotRetried ==
    [][\A r \in Runs :
          /\ (eb[r].errEb = "EB_SUCCESS" /\ eb'[r].errEb = "EB_ERR")
               => /\ pc'[r] = "ls_ret"
                  /\ loc'[r].err \in {"eb_seek_text", "eb_read_heading", "eb_read_text"}
                  /\ bc'[r] = bc[r]
          /\ eb[r].errEb = "EB_ERR"
               => /\ eb'[r].cur = eb[r].cur
                  /\ pc'[r] \notin {"lc_seek", "lc_read"}]_vars

\* C9 witness: a decode failed after the buffer had been doubled once.
C9_Witness ==
    \E r \in Runs :
        /\ pc[r] = "ls_ret" /\ eb[r].errEb = "EB_ERR"
        /\ bc[r].buffer.size = 2 * InitBufferSize

\* C10: Load returns a Book and no error, or no Book and an error; a
\* loadSubbook that failed returns no subbook.
C10_NoPartialResult ==
    \A r \in Runs :
        /\ pc[r] = "done"
             => \/ out[r].book # NilBook /\ out[r].err = NoErr
                \/ out[r].book = NilBook /\ out[r].err # NoErr
        /\ (pc[r] = "ls_ret" /\ loc[r].err # NoErr) => loc[r].subbook = NewSubbook

\* C10 witness: Load has failed on eb_hit_list after hits had been decoded.
C10_Witness ==
    \E r \in Runs :
        /\ pc[r] = "done" /\ out[r].err = "eb_hit_list" /\ out[r].book = NilBook
        /\ disc[r].fuel < MaxHits

\* the codepoints of the references of one font among the references S
CodepointsOf(S, font) == {u[2] : u \in {v \in S : v[1] = font}}

\* run r's codepoint sets are those of the references met for its subbook
SetsAreRefs(r) ==
    /\ (\/ activeQuery = r /\ pc[r] # "done"
        \/ pc[r] \in {"ls_clear", "ls_font", "ls_glyphs"}
        \/ pc[r] = "ls_ret" /\ loc[r].err = NoErr)
         => /\ query[r].gaijiNarrow = CodepointsOf(refs[r], "n")
            /\ query[r].gaijiWide = CodepointsOf(refs[r], "w")
    /\ (ver = 2 /\ pc[r] = "ls_ret" /\ loc[r].err = NoErr)
         => /\ Range(loc[r].subbook.GaijiNarrow) = CodepointsOf(refs[r], "n")
            /\ Range(loc[r].subbook.GaijiWide) = CodepointsOf(refs[r], "w")

\* C11: while a run's context is installed during its loadSubbook, and after
\* its walk, the narrow set holds exactly the codepoints of the narrow-font references the access
\* layer met while decoding for that subbook and the wide set exactly those of
\* the wide-font references; revision 2 returns the same sets in the subbook.
C11_HookRecords == \A r \in Runs : SetsAreRefs(r)

\* the decoded string s holds a placeholder {{n_ or {{w_
HasPlaceholder(s) ==
    \E k \in 1..(Len(s) - 3) :
        s[k] = 123 /\ s[k + 1] = 123 /\ s[k + 2] \in {110, 119} /\ s[k + 3] = 95

\* C12: a string loadContent returned holds a placeholder only if stub mode
\* was asked for.
C12_StubOnly ==
    \A r \in Runs : \A rec \in reads[r] : HasPlaceholder(rec[3]) => disc[r].stub

\* the names the claim gives the codes
CharExpected(c) ==
    CASE c = "EB_CHARCODE_ISO8859_1" -> "iso8859-1"
      [] c = "EB_CHARCODE_JISX0208" -> "jisx0208"
      [] c = "EB_CHARCODE_JISX0208_GB2312" -> "jisx0208/gb2312"
      [] c = "EB_CHARCODE_INVALID" -> "invalid"
DiscExpected(d) ==
    CASE d = "EB_DISC_EB" -> "eb"
      [] d = "EB_DISC_EPWING" -> "epwing"
      [] d = "EB_DISC_INVALID" -> "invalid"

\* C14: once loadCharCode (loadDiscCode) has returned without error the
\* book's CharCode (DiscCode) is the name of the disc's code, "invalid" for a
\* code outside the enumeration; Load fails with eb_character_code or
\* eb_disc_type only if it returns no Book, and the Book it returns carries
\* the two names.
C14_CodeNames ==
    \A r \in Runs : \A c \in disc[r].charCodes, d \in disc[r].discCodes :
        /\ pc[r] \notin {"off", "start", "bind", "charcode", "done", "panic"}
             => loc[r].charCode = CharExpected(c)
        /\ pc[r] \notin {"off", "start", "bind", "charcode", "disccode", "done", "panic"}
             => loc[r].discCode = DiscExpected(d)
        /\ \A b \in Range(out[r].book) :
             b.CharCode = CharExpected(c) /\ b.DiscCode = DiscExpected(d)

\* C14 witness: Load has returned a Book for a disc whose character code and
\* disc type are both outside the enumerations.
C14_Witness ==
    \E r \in Runs :
        /\ pc[r] = "done" /\ out[r].err = NoErr
        /\ disc[r].charCodes = {"EB_CHARCODE_INVALID"}
        /\ disc[r].discCodes = {"EB_DISC_INVALID"}
        /\ \E b \in Range(out[r].book) : b.CharCode = "invalid" /\ b.DiscCode = "invalid"

\* the entries gathered so far for the subbook run r is loading
Gathered(l) == Range(l.subbook.Entries \o l.entries)

\* C15: the context a loadSubbook installs has an empty seen-hash set and
\* empty codepoint sets, and an entry is dropped only when an entry gathered
\* for the same subbook has its checksum.
C15_FreshContext ==
    [][\A r \in Runs :
          /\ (activeQuery # r /\ activeQuery' = r)
               => /\ query'[r].blocksSeen = {}
                  /\ query'[r].gaijiWide = {}
                  /\ query'[r].gaijiNarrow = {}
          /\ (/\ pc[r] = "lc_ret" /\ loc[r].ret = "text" /\ loc'[r] # loc[r]
              /\ <<loc[r].heading, loc[r].val>> \notin Gathered(loc'[r]))
               => \E e \in Gathered(loc[r]) :
                     EntrySum(e[1], e[2]) = EntrySum(loc[r].heading, loc[r].val)]_vars

\* C15 witness: the second subbook has gathered an entry that the first
\* subbook holds too.
C15_Witness ==
    \E r \in Runs :
        /\ Len(loc[r].subbooks) = 1
        /\ pc[r] = "ls_ret" /\ loc[r].err = NoErr
        /\ Range(loc[r].subbooks[1].Entries) \cap Range(loc[r].subbook.Entries) # {}

\* C16: an enumeration request never ends loadSubbook with an error: it is
\* accepted and its hits are walked, or it is rejected, nothing gathered is
\* touched and the next pass (after the third, clearActiveQuery) is next; a
\* subbook returned after three rejections has no entries.
C16_PassesOptional ==
    [][\A r \in Runs :
          /\ (pc[r] = "ls_pass" /\ <<pc'[r], loc'[r]>> # <<pc[r], loc[r]>>)
               => /\ loc'[r].err = NoErr
                  /\ \/ pc'[r] = "le_hitlist" /\ loc'[r].rejected = loc[r].rejected
                     \/ /\ loc'[r].rejected = loc[r].rejected + 1
                        /\ loc'[r].subbook = loc[r].subbook
                        /\ IF loc[r].pass < 3
                           THEN pc'[r] = "ls_pass" /\ loc'[r].pass = loc[r].pass + 1
                           ELSE pc'[r] = "ls_clear"
          /\ (pc[r] = "ls_ret" /\ loc[r].err = NoErr /\ loc[r].rejected = 3)
               => loc[r].subbook.Entries = <<>>]_vars

\* C16 witness: loadSubbook returns a subbook after all three requests were
\* rejected.
C16_Witness ==
    \E r \in Runs :
        /\ pc[r] = "ls_ret" /\ loc[r].err = NoErr /\ loc[r].rejected = 3
        /\ loc[r].subbook.Title # <<>> /\ loc[r].subbook.Entries = <<>>

\* the title of the subbook with the given code, as a Go string
TitleOf(code) == <<83, 48 + code>>

\* C17: a Book returned without error holds one Subbook per code the access
\* layer reported, in the reported order; and a subbook is selected only when
\* no context of the run is installed and all subbooks before it are done.
C17_OrderedSequential ==
    [][\A r \in Runs :
          /\ (pc[r] = "ls_ret" /\ pc'[r] = "done" /\ out'[r].err = NoErr)
               => \E b \in Range(out'[r].book) :
                     /\ Len(b.Subbooks) = loc[r].count
                     /\ \A k \in 1..loc[r].count :
                           b.Subbooks[k].Title = TitleOf(SubbookCodes(loc[r].count)[k])
          /\ (pc[r] = "ls_start" /\ pc'[r] # "ls_start")
               => /\ activeQuery # r
                  /\ Len(loc[r].subbooks) = loc[r].i
                  /\ \A k \in 1..loc[r].i :
                        loc[r].subbooks[k].Title = TitleOf(SubbookCodes(loc[r].count)[k])]_vars

\* C17 witness: Load has returned the Book of a disc that reported the
\* subbooks 2, 1.
C17_Witness ==
    \E r \in Runs :
        /\ pc[r] = "done" /\ out[r].err = NoErr
        /\ \E b \in Range(out[r].book) :
              /\ Len(b.Subbooks) = 2
              /\ b.Subbooks[1].Title = TitleOf(2) /\ b.Subbooks[2].Title = TitleOf(1)

RECURSIVE IsDoubled(_)
\* size is 22 * 2^k for some k >= 0
IsDoubled(size) ==
    \/ size = InitBufferSize
    \/ size > InitBufferSize /\ size % 2 = 0 /\ IsDoubled(size \div 2)

Pixels(size) == (0..(size - 1)) \X (0..(size - 1))

White == <<255, 255, 255, 255>>

\* C13: for a 16x16 bitmap whose only set bit is the bit of pixel (x, y)
\* (bit 16*y + x), the image loadGaiji returns is black at (x, y) and white
\* at every other pixel.
C13_RoundTrip ==
    (raster.pc = "done" /\ raster.err = NoErr /\ raster.size = 16)
        => \A p \in Pixels(16) :
              ColorAt(raster.glyph, p[1], p[2])
                 = IF 16 * p[2] + p[1] = raster.bit THEN Black ELSE White

\* C20: for the size of the call, every pixel's byte index is inside the
\* bitmap, distinct pixels read distinct bits, and a bitmap with one set bit
\* gives at most one black pixel.
C20_IndexInjective ==
    raster.pc = "done" /\ raster.err = NoErr
        => /\ \A p \in Pixels(raster.size) :
                 byteOffset(p[1], p[2], raster.size) < BitmapLen(raster.size)
           /\ Cardinality({<<byteOffset(p[1], p[2], raster.size), bitOffset(p[1])>> :
                              p \in Pixels(raster.size)})
                 = raster.size * raster.size
           /\ Cardinality(raster.glyph.set) <= 1

====
